---- MODULE Spec2Model ----
(***************************************************************************)
(* A model of the if-addrs crate: the change-notification engine           *)
(* (IfChangeNotifier in src/lib.rs over the netlink-socket backend of      *)
(* src/posix_not_mac.rs and the callback/channel backend of                *)
(* src/windows.rs) and the per-entry conversion of the platform probe      *)
(* (get_if_addrs in src/lib.rs).                                           *)
(*                                                                         *)
(* Durations are natural numbers of nanoseconds.  Option<T> is a sequence: *)
(* <<>> is None and <<x>> is Some(x).                                      *)
(***************************************************************************)
EXTENDS Integers, Sequences, FiniteSets, TLC

\* ------------------------------------------------------------------ bounds
\* Signals (datagrams in the socket, messages in the channel) that may be pending.
MaxPending == 2
\* The clocks saturate after this many ticks (beyond every timeout of the model).
MaxTicks == 3
\* One tick of the clock, in nanoseconds.
TickNs == 500
\* OS threads that may run the change callback at the same time.
MaxCallbacks == 2

\* ------------------------------------------------------------------ options
None == <<>>
Some(x) == <<x>>
IsSome(o) == o # <<>>
Unwrap(o) == o[1]

\* ------------------------------------------------------------ std::time
NanosPerMicro == 1000
NanosPerSec == 1000000000

\* Duration::saturating_sub
SaturatingSub(t, e) == IF t > e THEN t - e ELSE 0

\* Duration::as_secs and Duration::subsec_micros
AsSecs(d) == d \div NanosPerSec
SubsecMicros(d) == (d % NanosPerSec) \div NanosPerMicro

\* ------------------------------------------------------------ io::Error
\* io::Error::last_os_error(): the error code with the kind std decodes from it.
DecodeErrorKind(errno) ==
    CASE errno = "EAGAIN" -> "WouldBlock"
      [] errno = "EINTR" -> "Interrupted"
      [] errno = "ENOMEM" -> "OutOfMemory"
      [] errno = "EACCES" -> "PermissionDenied"
      [] OTHER -> "Uncategorized"

LastOsError(errno) == [code |-> errno, kind |-> DecodeErrorKind(errno)]

\* io::Error::from_raw_os_error(stat)
FromRawOsError(stat) == [code |-> stat, kind |-> DecodeErrorKind(stat)]

Ok(v) == [ok |-> TRUE, val |-> v]
Err(e) == [ok |-> FALSE, err |-> e]

\* ------------------------------------------------------------ the host
\* Interface values a probe of the host may report (struct Interface).
IfLo == [name |-> "lo", addr |-> "127.0.0.1", index |-> Some(1), oper_status |-> "Up"]
IfEth == [name |-> "eth0", addr |-> "192.168.1.42", index |-> Some(2), oper_status |-> "Up"]
IfEthNew == [name |-> "eth0", addr |-> "192.168.1.43", index |-> Some(2), oper_status |-> "Up"]
Interfaces == {IfLo, IfEth, IfEthNew}

\* The interface sets the host moves between: loopback alone, an ethernet address
\* appearing, that address replaced by another, loopback gone.
Hosts == {{IfLo}, {IfLo, IfEth}, {IfLo, IfEthNew}, {IfEth, IfEthNew}}

\* Error codes the OS may report for each call.
SocketErrnos == {"EMFILE"}
BindErrnos == {"EACCES"}
SetsockoptErrnos == {"EBADF"}
RecvErrnos == {"ENOBUFS", "EINTR"}
GetifaddrsErrnos == {"ENOMEM"}
NotifyErrors == {"ERROR_NOT_ENOUGH_MEMORY"}

\* The OS threads that deliver change notifications.
NotifierThreads == 1..MaxCallbacks

\* The timeouts a caller passes to wait.
Timeouts == {None, Some(0), Some(TickNs), Some(2 * TickNs)}

\* Every enumeration of a finite set as a sequence (a HashSet's iteration order).
Orderings(S) ==
    {f \in [1..Cardinality(S) -> S] : \A i, j \in 1..Cardinality(S) : i # j => f[i] # f[j]}

VARIABLES
    backend,      \* "posix" | "windows": InternalIfChangeNotifier, fixed at build time
    host,         \* the interfaces the host has now (what a probe reports)
    pending,      \* signals queued in the socket / the channel
    engine,       \* "none" | "acquired" | "live" | "failed" | "dropped", and while the
                  \* primitive's Drop runs step by step: "unwinding" (new fails) | "dropping"
    inner,        \* the platform primitive: socket, registration handle, boxed sender
    new_result,   \* what IfChangeNotifier::new returned
    last_ifs,     \* IfChangeNotifier.last_ifs
    pc,           \* position of wait: "idle" | "loop" | "blocking" | "probing" | "returned"
    timeout,      \* wait's argument
    since_start,  \* start.elapsed(), saturated
    since_block,  \* time since the blocking receive was entered, saturated
    budget,       \* the Option<Duration> the last inner.wait was given
    rcvtimeo,     \* SO_RCVTIMEO of the socket: [tv_sec, tv_usec]
    changes,      \* wait's local `changes` of the last iteration
    result,       \* what wait returned: None while it runs
    prev_ifs,     \* history: last_ifs when the last probe of wait was taken
    entry_ifs,    \* history: last_ifs when wait was entered
    probed,       \* history: Some(set the last probe of wait returned)
    cause,        \* history: why wait returned an error
    os_err,       \* history: the failure an OS call of this wait reported
    seeded,       \* history: Some(set the host reported to the seeding probe)
    caller_view,  \* history: the seed snapshot with every returned change list applied
    new_fail,     \* history: Some(step and error of the OS call that failed in new)
    os_input,     \* what the OS enumeration call hands to one get_if_addrs call
    probe_ret,    \* what that get_if_addrs call returned: None before it
    arg,          \* the method called on a value and its arguments: <<>> when none is
    returned,     \* what that method returned: None before it
    callback,     \* per OS notifying thread: "idle" | "running" (in if_change_callback, before send)
    freed_use     \* history: a callback used the sender after it had been freed

vars == <<backend, host, pending, engine, inner, new_result, last_ifs, pc, timeout,
          since_start, since_block, budget, rcvtimeo, changes, result, prev_ifs,
          entry_ifs, probed, cause, os_err, seeded, caller_view, new_fail, os_input,
          probe_ret, arg, returned, callback, freed_use>>


\* ---------------------------------------------------------- platform probe
\* HashSet::from_iter over the Vec a probe returned
HashSetFromIter(v) == {v[i] : i \in 1..Len(v)}

\* get_if_addrs() as the engine sees it: the host's interfaces as a Vec in the
\* order `v`, or the error of the failed enumeration call.
GetIfAddrs(outcome, v) ==
    IF outcome = "ok" THEN Ok(v) ELSE Err(LastOsError(outcome))

ProbeOutcomes == {"ok"} \cup GetifaddrsErrnos

\* ------------------------------------------------- socket backend (posix)
NoInner == [sock |-> "none", bound |-> FALSE, handle |-> 0, tx |-> "none", frees |-> 0]

\* check_io / check_recv: a negative return is the last OS error
check_io(r) == IF r.ret < 0 THEN Err(LastOsError(r.errno)) ELSE Ok(r.ret)

\* Mutant: every receive failure is reported as a timeout.
check_recv_AllWouldBlock(r) ==
    IF r.ret < 0 THEN Err([code |-> r.errno, kind |-> "WouldBlock"]) ELSE Ok(r.ret)

\* Mutant: the sign of recv's return is not looked at.
check_recv_Unchecked(r) == Ok(r.ret)

check_recv(r) == IF r.ret < 0 THEN Err(LastOsError(r.errno)) ELSE Ok(r.ret)

\* What a libc call returns: -1 with errno set, or a non-negative value.
Failed(errnos, why) == {[ret |-> -1, errno |-> e, why |-> why] : e \in errnos}
Succeeded(n) == [ret |-> n, errno |-> "none", why |-> "ok"]

\* impl Drop for NetlinkSocket
NetlinkSocketDrop(i) == [i EXCEPT !.sock = "closed", !.bound = FALSE]

\* Mutant: the result of bind() is not checked.
PosixNew_BindUnchecked(s, b) ==
    IF ~check_io(s).ok
    THEN [res |-> Err(check_io(s).err), inner |-> NoInner]
    ELSE [res |-> Ok("notifier"),
          inner |-> [NoInner EXCEPT !.sock = "open", !.bound = (b.ret >= 0)]]

\* PosixIfChangeNotifier::new, given what socket() and bind() return:
\* [res |-> io::Result, inner |-> the primitive's state afterwards]
PosixNew(s, b) ==
    IF ~check_io(s).ok
    THEN [res |-> Err(check_io(s).err), inner |-> NoInner]
    ELSE IF ~check_io(b).ok
         THEN [res |-> Err(check_io(b).err),
               inner |-> NetlinkSocketDrop([NoInner EXCEPT !.sock = "open"])]
         ELSE [res |-> Ok("notifier"),
               inner |-> [NoInner EXCEPT !.sock = "open", !.bound = TRUE]]

\* Mutant: only a duration of exactly zero is made non-zero.
ToTimeval_OnlyExactZero(t) ==
    IF IsSome(t)
    THEN IF Unwrap(t) = 0
         THEN [tv_sec |-> 0, tv_usec |-> 1]
         ELSE [tv_sec |-> AsSecs(Unwrap(t)), tv_usec |-> SubsecMicros(Unwrap(t))]
    ELSE [tv_sec |-> 0, tv_usec |-> 0]

\* Mutant: a duration below one microsecond is handed over as zero.
ToTimeval_ZeroKept(t) ==
    IF IsSome(t)
    THEN [tv_sec |-> AsSecs(Unwrap(t)), tv_usec |-> SubsecMicros(Unwrap(t))]
    ELSE [tv_sec |-> 0, tv_usec |-> 0]

\* Mutant: with no timeout given the receive timeout is armed with one microsecond.
ToTimeval_NoneIsShort(t) ==
    IF IsSome(t)
    THEN LET tv_sec == AsSecs(Unwrap(t))
             tv_usec == SubsecMicros(Unwrap(t))
         IN  IF tv_sec = 0 /\ tv_usec = 0
             THEN [tv_sec |-> 0, tv_usec |-> 1]
             ELSE [tv_sec |-> tv_sec, tv_usec |-> tv_usec]
    ELSE [tv_sec |-> 0, tv_usec |-> 1]

\* The timeval PosixIfChangeNotifier::wait hands to setsockopt(SO_RCVTIMEO)
ToTimeval(t) ==
    IF IsSome(t)
    THEN LET tv_sec == AsSecs(Unwrap(t))
             tv_usec == SubsecMicros(Unwrap(t))
         IN  IF tv_sec = 0 /\ tv_usec = 0
             THEN [tv_sec |-> 0, tv_usec |-> 1]
             ELSE [tv_sec |-> tv_sec, tv_usec |-> tv_usec]
    ELSE [tv_sec |-> 0, tv_usec |-> 0]

TimevalNs(tv) == tv.tv_sec * NanosPerSec + tv.tv_usec * NanosPerMicro

\* recv() on the socket as the OS behaves: a pending datagram is returned at once,
\* an armed receive timeout (non-zero SO_RCVTIMEO) that has run out gives EAGAIN,
\* a zero SO_RCVTIMEO waits forever; the call may also fail.
RecvReturns(npending, tv, blocked) ==
    (IF npending > 0 THEN {Succeeded(16)} ELSE {})
    \cup (IF npending = 0 /\ TimevalNs(tv) > 0 /\ blocked >= TimevalNs(tv)
          THEN Failed({"EAGAIN"}, "timeout") ELSE {})

RecvFails == Failed(RecvErrnos, "primitive")

\* ---------------------------------------------- callback backend (windows)
\* Mutant: Drop never unregisters the callback.
NeedsCancel_Never(i) == FALSE

\* impl Drop for WindowsIfChangeNotifier: if self.handle != 0
NeedsCancel(i) == i.handle # 0

\* CancelMibChangeNotify2(self.handle): the registration is gone
CancelMibChangeNotify2(i) == [i EXCEPT !.handle = 0]

\* drop(Box::from_raw(self.tx)): the boxed Sender is freed
FreeSender(i) == [i EXCEPT !.tx = "freed", !.frees = @ + 1]

\* impl Drop for WindowsIfChangeNotifier, with no callback running
WindowsDrop(i) == FreeSender(IF NeedsCancel(i) THEN CancelMibChangeNotify2(i) ELSE i)

\* WindowsIfChangeNotifier::new, given NotifyIpInterfaceChange's status
WindowsNew(stat) ==
    LET ret == [NoInner EXCEPT !.tx = "boxed"]
    IN  IF stat # "NO_ERROR"
        THEN [res |-> Err(FromRawOsError(stat)), inner |-> WindowsDrop(ret)]
        ELSE [res |-> Ok("notifier"), inner |-> [ret EXCEPT !.handle = 1]]

\* Mutant: the channel is made by sync_channel(1), a buffer of one message.
ChannelCapacity_OneSlot == Some(1)

\* channel(): an asynchronous channel, its buffer has no bound
ChannelCapacity == None

\* tx.send(()) of std::sync::mpsc: an error when the receiver is gone; on a channel
\* with a bounded buffer "blocked" while the buffer is full; queued otherwise.
ChannelSend(npending, capacity, rx_alive) ==
    IF ~rx_alive THEN "Disconnected"
    ELSE IF IsSome(capacity) /\ npending >= Unwrap(capacity) THEN "blocked"
    ELSE "Ok"

\* rx.recv_timeout(t) / rx.recv() of std::sync::mpsc: a queued message first, then
\* disconnection (no sender left), then the deadline; "blocked" otherwise.
ChannelRecv(npending, tx, t, blocked) ==
    IF npending > 0 THEN "Ok"
    ELSE IF tx # "boxed" THEN "Disconnected"
    ELSE IF IsSome(t) /\ blocked >= Unwrap(t) THEN "Timeout"
    ELSE "blocked"

ChannelReturns(npending, tx, t, blocked) ==
    LET r == ChannelRecv(npending, tx, t, blocked)
    IN  IF r = "blocked" THEN {}
        ELSE {[chan |-> r,
               why |-> IF r = "Ok" THEN "ok" ELSE IF r = "Timeout" THEN "timeout"
                       ELSE "primitive"]}

\* WindowsIfChangeNotifier::wait's map_err: every receive error is WouldBlock
WindowsWait(r) ==
    IF r = "Ok" THEN Ok("unit") ELSE Err([code |-> "custom", kind |-> "WouldBlock"])

\* Whether the OS delivers change signals to the primitive.
Subscribed ==
    \/ backend = "posix" /\ inner.sock = "open" /\ inner.bound
    \/ backend = "windows" /\ inner.handle # 0

\* Dropping InternalIfChangeNotifier
DropInner(i) == IF backend = "posix" THEN NetlinkSocketDrop(i) ELSE WindowsDrop(i)


\* --------------------------------------------------- IfChangeNotifier
\* `?` : an Err is returned to the caller at once
Propagates(r) == ~r.ok

\* Mutant: every probed interface is reported as added, known or not.
AddedSet_NoDifference(new_ifs, last) == new_ifs

\* Mutant: the second difference is taken the same way round as the first.
RemovedSet_SameAsAdded(new_ifs, last) == new_ifs \ last

\* new_ifs.difference(&self.last_ifs) and self.last_ifs.difference(&new_ifs)
AddedSet(new_ifs, last) == new_ifs \ last

RemovedSet(new_ifs, last) == last \ new_ifs

\* .cloned().map(IfChangeType::Added) / .map(IfChangeType::Removed)
MapAdded(s) == [i \in 1..Len(s) |-> [tag |-> "Added", iface |-> s[i]]]

MapRemoved(s) == [i \in 1..Len(s) |-> [tag |-> "Removed", iface |-> s[i]]]

\* History: what a caller holds that inserts every Added and deletes every Removed
\* of a returned list, in the list's order
RECURSIVE ApplyChanges(_, _)
ApplyChanges(held, c) ==
    IF c = <<>> THEN held
    ELSE ApplyChanges(IF Head(c).tag = "Added" THEN held \cup {Head(c).iface}
                      ELSE held \ {Head(c).iface},
                      Tail(c))

\* Mutant: the Removed are collected first and the Added appended.
CollectChanges_RemovedFirst(oa, orm) == MapRemoved(orm) \o MapAdded(oa)

\* collect() the Added, then extend() with the Removed; oa and orm are the orders
\* in which the two difference iterators yield their elements
CollectChanges(oa, orm) == MapAdded(oa) \o MapRemoved(orm)

\* Mutant: the stored snapshot is not replaced.
NextLastIfs_Stale(new_ifs, last) == last

\* self.last_ifs = new_ifs
NextLastIfs(new_ifs, last) == new_ifs

\* Mutant: the emptiness test is made before the removals are appended.
ReturnsChanges_AddedOnly(c) == \E i \in 1..Len(c) : c[i].tag = "Added"

\* Mutant: the changes are returned without the emptiness test.
ReturnsChanges_Always(c) == TRUE

\* if !changes.is_empty() { return Ok(changes) }
ReturnsChanges(c) == c # <<>>

\* timeout.map(|t| t.saturating_sub(start.elapsed()))
Remaining(t, elapsed) ==
    IF IsSome(t) THEN Some(SaturatingSub(Unwrap(t), elapsed)) ELSE None

Saturate(t) == IF t > MaxTicks * TickNs THEN MaxTicks * TickNs ELSE t

\* No engine has been constructed yet.
NoEngine ==
    /\ pending = 0
    /\ engine = "none"
    /\ inner = NoInner
    /\ new_result = None
    /\ last_ifs = {}
    /\ pc = "idle"
    /\ timeout = None
    /\ since_start = 0
    /\ since_block = 0
    /\ budget = None
    /\ rcvtimeo = [tv_sec |-> 0, tv_usec |-> 0]
    /\ changes = <<>>
    /\ result = None
    /\ prev_ifs = {}
    /\ entry_ifs = {}
    /\ probed = None
    /\ cause = "none"
    /\ os_err = None
    /\ seeded = None
    /\ caller_view = {}
    /\ new_fail = None
    /\ callback = [t \in NotifierThreads |-> "idle"]
    /\ freed_use = FALSE

Init ==
    /\ backend \in {"posix", "windows"}
    /\ host \in Hosts
    /\ NoEngine
    /\ os_input = <<>>
    /\ probe_ret = None
    /\ arg = <<>>
    /\ returned = None

waitVars == <<pc, timeout, since_start, since_block, budget, rcvtimeo, changes, result,
              prev_ifs, entry_ifs, probed, cause, os_err>>

probeVars == <<os_input, probe_ret, arg, returned>>

callbackVars == <<callback, freed_use>>

\* Mutant: the snapshot field is written, and so evaluated, before the primitive's.
NewFields_ProbeFirst == <<"last_ifs", "inner">>

\* Ok(Self { inner: .., last_ifs: .. }): the initialisers of the fields run in the
\* order the fields are written.
NewFields == <<"inner", "last_ifs">>

\* The field whose initialiser IfChangeNotifier::new runs next
FieldDue ==
    IF engine = "none" THEN NewFields[1]
    ELSE IF engine \in {"acquired", "seeded"} THEN NewFields[2]
    ELSE "done"

\* IfChangeNotifier::new, first field: InternalIfChangeNotifier::new()?
NewInner ==
    /\ UNCHANGED <<probeVars, callbackVars>>
    /\ FieldDue = "inner"
    /\ \E s \in {Succeeded(3)} \cup Failed(SocketErrnos, "primitive"),
          b \in {Succeeded(0)} \cup Failed(BindErrnos, "primitive"),
          stat \in {"NO_ERROR"} \cup NotifyErrors :
          LET r == IF backend = "posix" THEN PosixNew(s, b) ELSE WindowsNew(stat)
              raw == IF backend = "posix"
                     THEN IF s.ret < 0 THEN Some(LastOsError(s.errno))
                          ELSE IF b.ret < 0 THEN Some(LastOsError(b.errno)) ELSE None
                     ELSE IF stat # "NO_ERROR" THEN Some(FromRawOsError(stat)) ELSE None
          IN  /\ inner' = r.inner
              /\ new_fail' = IF IsSome(raw)
                             THEN Some([step |-> "primitive", err |-> Unwrap(raw)])
                             ELSE None
              /\ IF Propagates(r.res)
                 THEN /\ engine' = "failed"
                      /\ new_result' = Some(Err(r.res.err))
                 ELSE /\ engine' = IF engine = "none" THEN "acquired" ELSE "live"
                      /\ new_result' = IF engine = "none" THEN None
                                        ELSE Some(Ok("IfChangeNotifier"))
    /\ UNCHANGED <<backend, host, pending, last_ifs, seeded, caller_view>>
    /\ UNCHANGED waitVars

\* IfChangeNotifier::new, second field: HashSet::from_iter(get_if_addrs()?)
NewProbe ==
    /\ UNCHANGED <<probeVars, callbackVars>>
    /\ FieldDue = "last_ifs"
    /\ \E o \in ProbeOutcomes, v \in Orderings(host) :
          LET r == GetIfAddrs(o, v)
          IN  /\ new_fail' = IF o = "ok" THEN None
                             ELSE Some([step |-> "probe", err |-> LastOsError(o)])
              /\ IF Propagates(r)
                 THEN /\ engine' = "failed"
                      /\ new_result' = Some(Err(r.err))
                      /\ inner' = DropInner(inner)
                      /\ pending' = 0
                      /\ UNCHANGED <<last_ifs, seeded, caller_view>>
                 ELSE /\ engine' = IF engine = "none" THEN "seeded" ELSE "live"
                      /\ new_result' = IF engine = "none" THEN None
                                        ELSE Some(Ok("IfChangeNotifier"))
                      /\ last_ifs' = HashSetFromIter(r.val)
                      /\ seeded' = Some(host)
                      /\ caller_view' = HashSetFromIter(r.val)
                      /\ UNCHANGED <<inner, pending>>
    /\ UNCHANGED <<backend, host>>
    /\ UNCHANGED waitVars

\* The caller enters wait(t): let start = Instant::now()
WaitCall ==
    /\ UNCHANGED <<probeVars, callbackVars>>
    /\ engine = "live"
    /\ pc \in {"idle", "returned"}
    /\ \E t \in Timeouts : timeout' = t
    /\ pc' = "loop"
    /\ since_start' = 0
    /\ since_block' = 0
    /\ budget' = None
    /\ changes' = <<>>
    /\ result' = None
    /\ prev_ifs' = {}
    /\ entry_ifs' = last_ifs
    /\ probed' = None
    /\ cause' = "none"
    /\ os_err' = None
    /\ UNCHANGED <<backend, host, pending, engine, inner, new_result, last_ifs,
                   rcvtimeo, seeded, caller_view, new_fail>>

\* wait returns Err(e); why and raw are the history of what the OS reported
ReturnErr(e, why, raw) ==
    /\ pc' = "returned"
    /\ result' = Some(Err(e))
    /\ cause' = why
    /\ os_err' = raw
    /\ since_block' = 0

\* Top of the loop: the budget is computed and inner.wait entered.  The socket
\* backend sets SO_RCVTIMEO first (which may fail), then calls recv.
InnerWaitEnter ==
    /\ UNCHANGED <<probeVars, callbackVars>>
    /\ pc = "loop"
    /\ budget' = Remaining(timeout, since_start)
    /\ \E so \in {Succeeded(0)}
                 \cup (IF backend = "posix" THEN Failed(SetsockoptErrnos, "primitive") ELSE {}) :
          IF Propagates(check_io(so))
          THEN /\ ReturnErr(check_io(so).err, so.why, Some(LastOsError(so.errno)))
               /\ UNCHANGED rcvtimeo
          ELSE /\ pc' = "blocking"
               /\ since_block' = 0
               /\ rcvtimeo' = IF backend = "posix" THEN ToTimeval(budget') ELSE rcvtimeo
               /\ UNCHANGED <<result, cause, os_err>>
    /\ UNCHANGED <<backend, host, pending, engine, inner, new_result, last_ifs, timeout,
                   since_start, changes, prev_ifs, entry_ifs, probed, seeded, caller_view,
                   new_fail>>

\* The io::Result of inner.wait for what the blocking call returned
InnerWait(raw) ==
    IF backend = "posix"
    THEN IF Propagates(check_recv(raw)) THEN Err(check_recv(raw).err) ELSE Ok("unit")
    ELSE WindowsWait(raw.chan)

\* Whether the blocking call took a signal out of the queue
Consumed(raw) == IF backend = "posix" THEN raw.ret >= 0 ELSE raw.chan = "Ok"

\* History: the failure the OS reported, None for a signal or a timeout
RawFailure(raw) ==
    IF raw.why # "primitive" THEN None
    ELSE IF backend = "posix" THEN Some(LastOsError(raw.errno))
    ELSE Some(raw.chan)

\* self.inner.wait(..)? has returned `raw`
InnerWaitStep(raw) ==
    /\ UNCHANGED <<probeVars, callbackVars>>
    /\ pending' = IF Consumed(raw) THEN pending - 1 ELSE pending
    /\ IF Propagates(InnerWait(raw))
       THEN ReturnErr(InnerWait(raw).err, raw.why, RawFailure(raw))
       ELSE /\ pc' = "probing"
            /\ since_block' = 0
            /\ os_err' = RawFailure(raw)
            /\ UNCHANGED <<result, cause>>
    /\ UNCHANGED <<backend, host, engine, inner, new_result, last_ifs, timeout,
                   since_start, budget, rcvtimeo, changes, prev_ifs, entry_ifs, probed,
                   seeded, caller_view, new_fail>>

\* The blocking call ends: a signal was received or the budget ran out
InnerWaitReturn ==
    /\ pc = "blocking"
    /\ \E raw \in (IF backend = "posix"
                   THEN RecvReturns(pending, rcvtimeo, since_block)
                   ELSE ChannelReturns(pending, inner.tx, budget, since_block)) :
          InnerWaitStep(raw)

\* The blocking recv of the socket backend fails
InnerWaitFail ==
    /\ pc = "blocking"
    /\ backend = "posix"
    /\ \E raw \in RecvFails : InnerWaitStep(raw)

\* The rest of one loop iteration: re-probe, diff, store the snapshot, return the
\* changes or loop
Probe ==
    /\ UNCHANGED <<probeVars, callbackVars>>
    /\ pc = "probing"
    /\ \E o \in ProbeOutcomes, v \in Orderings(host) :
          LET r == GetIfAddrs(o, v)
          IN  IF Propagates(r)
              THEN /\ ReturnErr(r.err, "probe", Some(LastOsError(o)))
                   /\ UNCHANGED <<last_ifs, changes, prev_ifs, probed, caller_view>>
              ELSE LET new_ifs == HashSetFromIter(r.val)
                   IN  /\ \E oa \in Orderings(AddedSet(new_ifs, last_ifs)),
                             orm \in Orderings(RemovedSet(new_ifs, last_ifs)) :
                             changes' = CollectChanges(oa, orm)
                       /\ last_ifs' = NextLastIfs(new_ifs, last_ifs)
                       /\ prev_ifs' = last_ifs
                       /\ probed' = Some(host)
                       /\ IF ReturnsChanges(changes')
                          THEN /\ pc' = "returned"
                               /\ result' = Some(Ok(changes'))
                               /\ caller_view' = ApplyChanges(caller_view, changes')
                          ELSE /\ pc' = "loop"
                               /\ result' = None
                               /\ UNCHANGED caller_view
                       /\ UNCHANGED <<cause, os_err, since_block>>
    /\ UNCHANGED <<backend, host, pending, engine, inner, new_result, timeout,
                   since_start, budget, rcvtimeo, entry_ifs, seeded, new_fail>>

\* The caller drops the engine
Drop ==
    /\ UNCHANGED <<probeVars, callbackVars>>
    /\ engine = "live"
    /\ pc \in {"idle", "returned"}
    /\ engine' = "dropped"
    /\ inner' = DropInner(inner)
    /\ pending' = 0
    /\ UNCHANGED <<backend, host, new_result, last_ifs, seeded, caller_view, new_fail>>
    /\ UNCHANGED waitVars

\* ------------------------------------------------------------ environment
\* The host's interfaces change; the OS signals a subscribed primitive.
HostChange ==
    /\ UNCHANGED <<probeVars, callbackVars>>
    /\ Subscribed => pending < MaxPending
    /\ \E h \in Hosts : h # host /\ host' = h
    /\ pending' = IF Subscribed THEN pending + 1 ELSE pending
    /\ UNCHANGED <<backend, engine, inner, new_result, last_ifs, seeded, caller_view, new_fail>>
    /\ UNCHANGED waitVars

\* The OS signals with nothing changed (a spurious wake).
SpuriousSignal ==
    /\ UNCHANGED <<probeVars, callbackVars>>
    /\ Subscribed
    /\ pending < MaxPending
    /\ pending' = pending + 1
    /\ UNCHANGED <<backend, host, engine, inner, new_result, last_ifs, seeded,
                   caller_view, new_fail>>
    /\ UNCHANGED waitVars

\* Time passes while wait runs.
Tick ==
    /\ UNCHANGED <<probeVars, callbackVars>>
    /\ pc \in {"loop", "blocking", "probing"}
    /\ since_start' = Saturate(since_start + TickNs)
    /\ since_block' = IF pc = "blocking" THEN Saturate(since_block + TickNs) ELSE since_block
    /\ <<since_start', since_block'>> # <<since_start, since_block>>
    /\ UNCHANGED <<backend, host, pending, engine, inner, new_result, last_ifs, pc,
                   timeout, budget, rcvtimeo, changes, result, prev_ifs, entry_ifs, probed,
                   cause,
                   os_err, seeded, caller_view, new_fail>>

Next ==
    \/ NewInner
    \/ NewProbe
    \/ WaitCall
    \/ InnerWaitEnter
    \/ InnerWaitReturn
    \/ InnerWaitFail
    \/ Probe
    \/ Drop
    \/ HostChange
    \/ SpuriousSignal
    \/ Tick

Spec == Init /\ [][Next]_vars

\* The same machine with the scheduling the code can count on: time passes, a
\* blocking call that can return does, and the calling thread runs its next step.
\* Signals, host changes, failures of OS calls and the caller's calls are not forced.
FairSpec ==
    /\ Init
    /\ [][Next]_vars
    /\ WF_vars(Tick)
    /\ WF_vars(InnerWaitEnter)
    /\ WF_vars(InnerWaitReturn)
    /\ WF_vars(Probe)

\* ============================================== the callback backend, step by step
\* The callback backend with the OS callback as a thread of its own and the
\* primitive's Drop as the two calls it makes.

Quiescent == \A t \in NotifierThreads : callback[t] = "idle"

InFlight == Cardinality({t \in NotifierThreads : callback[t] = "running"})

CallbackInit == Init /\ backend = "windows"

\* IfChangeNotifier::new, second field, when the seeding probe succeeds
NewProbeOk == NewProbe /\ engine' = "live"

\* IfChangeNotifier::new, second field, when get_if_addrs()? fails: `inner` goes
\* out of scope with its registration live
NewProbeFails ==
    /\ engine = "acquired"
    /\ \E o \in GetifaddrsErrnos :
          LET r == GetIfAddrs(o, <<>>)
          IN  /\ Propagates(r)
              /\ new_fail' = Some([step |-> "probe", err |-> LastOsError(o)])
              /\ new_result' = Some(Err(r.err))
    /\ engine' = "unwinding"
    /\ UNCHANGED <<backend, host, pending, inner, last_ifs, seeded, caller_view>>
    /\ UNCHANGED <<waitVars, probeVars, callbackVars>>

\* The caller drops the engine: Drop for WindowsIfChangeNotifier is entered
DropBegin ==
    /\ engine = "live"
    /\ pc \in {"idle", "returned"}
    /\ engine' = "dropping"
    /\ UNCHANGED <<backend, host, pending, inner, new_result, last_ifs, seeded,
                   caller_view, new_fail>>
    /\ UNCHANGED <<waitVars, probeVars, callbackVars>>

\* if self.handle != 0 { CancelMibChangeNotify2(self.handle) }: the call returns
\* once no callback of the registration is running
DropCancel ==
    /\ engine \in {"unwinding", "dropping"}
    /\ inner.tx = "boxed"
    /\ NeedsCancel(inner)
    /\ Quiescent
    /\ inner' = CancelMibChangeNotify2(inner)
    /\ UNCHANGED <<backend, host, pending, engine, new_result, last_ifs, seeded,
                   caller_view, new_fail>>
    /\ UNCHANGED <<waitVars, probeVars, callbackVars>>

\* drop(Box::from_raw(self.tx)), then the fields (the Receiver and what it holds)
DropFree ==
    /\ engine \in {"unwinding", "dropping"}
    /\ inner.tx = "boxed"
    /\ ~NeedsCancel(inner)
    /\ inner' = FreeSender(inner)
    /\ pending' = 0
    /\ engine' = IF engine = "unwinding" THEN "failed" ELSE "dropped"
    /\ UNCHANGED <<backend, host, new_result, last_ifs, seeded, caller_view, new_fail>>
    /\ UNCHANGED <<waitVars, probeVars, callbackVars>>

\* The host's interfaces change while no callback is registered
HostChangeUnseen == HostChange /\ ~Subscribed

\* The OS calls if_change_callback on thread t, for a change of the host's
\* interfaces or for none (a spurious notification)
CallbackEnter(t) ==
    /\ Subscribed
    /\ callback[t] = "idle"
    /\ pending + InFlight < MaxPending
    /\ \E h \in Hosts : host' = h
    /\ callback' = [callback EXCEPT ![t] = "running"]
    /\ UNCHANGED <<backend, pending, engine, inner, new_result, last_ifs, seeded,
                   caller_view, new_fail, freed_use>>
    /\ UNCHANGED <<waitVars, probeVars>>

\* if let Some(tx) = ctx.as_ref() { tx.send(()).ok(); } and the callback returns.
\* A sender that has been freed is a dangling reference: the send may queue a
\* message or not.
CallbackSend(t) ==
    /\ callback[t] = "running"
    /\ IF inner.tx # "boxed"
       THEN /\ freed_use' = TRUE
            /\ pending' \in {pending, pending + 1}
       ELSE LET r == ChannelSend(pending, ChannelCapacity, TRUE)
            IN  /\ r # "blocked"
                /\ pending' = IF r = "Ok" THEN pending + 1 ELSE pending
                /\ UNCHANGED freed_use
    /\ callback' = [callback EXCEPT ![t] = "idle"]
    /\ UNCHANGED <<backend, host, engine, inner, new_result, last_ifs, seeded,
                   caller_view, new_fail>>
    /\ UNCHANGED <<waitVars, probeVars>>

NextCallback ==
    \/ NewInner
    \/ NewProbeOk
    \/ NewProbeFails
    \/ WaitCall
    \/ InnerWaitEnter
    \/ InnerWaitReturn
    \/ Probe
    \/ DropBegin
    \/ DropCancel
    \/ DropFree
    \/ HostChangeUnseen
    \/ \E t \in NotifierThreads : CallbackEnter(t)
    \/ \E t \in NotifierThreads : CallbackSend(t)
    \/ Tick

SpecCallback == CallbackInit /\ [][NextCallback]_vars

\* ============================================================ the probe
\* get_if_addrs itself: what one call makes of what the OS enumeration hands it.

\* Entries a prefix table may hold.
MaxPrefixes == 2
\* Times GetAdaptersAddresses may answer ERROR_BUFFER_OVERFLOW before its final answer.
MaxRetries == 2

\* ------------------------------------------------------------ bit operations
\* x & bit, for `bit` a power of two
BitAnd(x, bit) == ((x \div bit) % 2) * bit

\* x | bit, for `bit` a power of two
BitOr(x, bit) == IF BitAnd(x, bit) = bit THEN x ELSE x + bit

\* a | b over words of `width` bits
RECURSIVE BitwiseOr(_, _, _)
BitwiseOr(a, b, width) ==
    IF width = 0 THEN 0
    ELSE (IF a % 2 = 1 \/ b % 2 = 1 THEN 1 ELSE 0)
             + 2 * BitwiseOr(a \div 2, b \div 2, width - 1)

\* !b for a u8
ByteNot(b) == 255 - b

\* u8::count_ones
RECURSIVE ByteCountOnes(_)
ByteCountOnes(b) == IF b = 0 THEN 0 ELSE (b % 2) + ByteCountOnes(b \div 2)

\* u32::from_le_bytes(octets).count_ones() / u128::from_le_bytes(octets).count_ones():
\* the set bits of the assembled word are the set bits of its octets, in either
\* byte order.
RECURSIVE count_ones(_)
count_ones(octets) ==
    IF octets = <<>> THEN 0 ELSE ByteCountOnes(Head(octets)) + count_ones(Tail(octets))

\* ------------------------------------------------------------ addresses
\* std::net::IpAddr: the family and the octets in network order.
V4(octets) == [v |-> "V4", octets |-> octets]
V6(octets) == [v |-> "V6", octets |-> octets]

\* Ipv4Addr::new(0, 0, 0, 0) and Ipv6Addr::new(0, 0, 0, 0, 0, 0, 0, 0)
Ipv4Zero == <<0, 0, 0, 0>>
Ipv6Zero == <<0, 0, 0, 0, 0, 0, 0, 0, 0, 0, 0, 0, 0, 0, 0, 0>>

\* Ipv6Addr::segments: eight 16-bit words, big-endian
segments(octets) == [n \in 1..8 |-> octets[2 * n - 1] * 256 + octets[2 * n]]

\* Ipv6Addr::new from eight 16-bit words
Ipv6AddrNew(words) ==
    [i \in 1..16 |-> IF i % 2 = 1 THEN words[(i + 1) \div 2] \div 256
                                  ELSE words[i \div 2] % 256]

\* Raw socket addresses: a null pointer, or a family tag with the address bytes.
SockaddrNull == [sa_family |-> "null"]
SockaddrIn(octets) == [sa_family |-> "AF_INET", sin_addr |-> octets]
SockaddrIn6(octets) == [sa_family |-> "AF_INET6", sin6_addr |-> octets]
SockaddrLl == [sa_family |-> "AF_PACKET"]

\* sockaddr::to_ipaddr: the address of an AF_INET / AF_INET6 socket address, None
\* for a null pointer and for every other family.
to_ipaddr(sockaddr) ==
    CASE sockaddr.sa_family = "AF_INET" -> Some(V4(sockaddr.sin_addr))
      [] sockaddr.sa_family = "AF_INET6" -> Some(V6(sockaddr.sin6_addr))
      [] OTHER -> None

\* CStr::to_string_lossy / String::from_utf16_lossy: ill-formed units become U+FFFD.
Lossy(units) ==
    [i \in 1..Len(units) |-> IF units[i] = "ill-formed" THEN "U+FFFD" ELSE units[i]]

\* Mutant: every value below 2 is Up.
IfOperStatusFrom_LowIsUp(value) ==
    CASE value <= 1 -> "Up"
      [] value = 2 -> "Down"
      [] value = 3 -> "Testing"
      [] value = 4 -> "Unknown"
      [] value = 5 -> "Dormant"
      [] value = 6 -> "NotPresent"
      [] value = 7 -> "LowerLayerDown"
      [] OTHER -> "Unknown"

\* impl From<i32> for IfOperStatus
IfOperStatusFrom(value) ==
    CASE value = 1 -> "Up"
      [] value = 2 -> "Down"
      [] value = 3 -> "Testing"
      [] value = 4 -> "Unknown"
      [] value = 5 -> "Dormant"
      [] value = 6 -> "NotPresent"
      [] value = 7 -> "LowerLayerDown"
      [] OTHER -> "Unknown"

\* ------------------------------------------------------------ OS buffers
\* The log of the OS allocator during one probe: buffer `buf` is handed out
\* (HeapAlloc, getifaddrs) or released (HeapFree, freeifaddrs).
Alloc(heap, buf) == Append(heap, [op |-> "alloc", buf |-> buf])
Free(heap, buf) == Append(heap, [op |-> "free", buf |-> buf])

\* panic!(..): the call does not return
Panic(msg) == [ok |-> FALSE, panicked |-> msg]
IsPanic(res) == "panicked" \in DOMAIN res

\* ------------------------------------------ direct-netmask backend (posix)
IFF_BROADCAST == 2
POSIX_IFF_RUNNING == 64

\* ifaddrs::do_broadcast: the broadcast/destination member of the entry
do_broadcast(ifaddr) == to_ipaddr(ifaddr.ifa_ifu)

\* One iteration of the loop of get_if_addrs up to `addr`: None is `continue`.
PosixAddr(ifaddr) ==
    LET a == to_ipaddr(ifaddr.ifa_addr)
        nm == to_ipaddr(ifaddr.ifa_netmask)
        bc == do_broadcast(ifaddr)
    IN  IF a = None THEN None
        ELSE IF Unwrap(a).v = "V4" THEN
            LET netmask == IF IsSome(nm) /\ Unwrap(nm).v = "V4"
                           THEN Unwrap(nm).octets ELSE Ipv4Zero
                broadcast == IF BitAnd(ifaddr.ifa_flags, IFF_BROADCAST) # 0
                             THEN (IF IsSome(bc) /\ Unwrap(bc).v = "V4"
                                   THEN Some(Unwrap(bc).octets) ELSE None)
                             ELSE None
            IN  Some([v |-> "V4", ip |-> Unwrap(a).octets, netmask |-> netmask,
                      prefixlen |-> count_ones(netmask), broadcast |-> broadcast])
        ELSE
            LET netmask == IF IsSome(nm) /\ Unwrap(nm).v = "V6"
                           THEN Unwrap(nm).octets ELSE Ipv6Zero
                broadcast == IF BitAnd(ifaddr.ifa_flags, IFF_BROADCAST) # 0
                             THEN (IF IsSome(bc) /\ Unwrap(bc).v = "V6"
                                   THEN Some(Unwrap(bc).octets) ELSE None)
                             ELSE None
            IN  Some([v |-> "V6", ip |-> Unwrap(a).octets, netmask |-> netmask,
                      prefixlen |-> count_ones(netmask), broadcast |-> broadcast])

\* The rest of the iteration: name, index, oper_status and the pushed Interface.
PosixInterface(ifaddr, addr) ==
    [name |-> Lossy(ifaddr.ifa_name),
     addr |-> addr,
     index |-> IF ifaddr.if_index = 0 THEN None ELSE Some(ifaddr.if_index),
     oper_status |-> IF BitAnd(ifaddr.ifa_flags, POSIX_IFF_RUNNING) # 0
                     THEN "Up" ELSE "Unknown"]

\* for ifaddr in ifaddrs.iter() { .. ret.push(..) }
RECURSIVE PosixLoop(_, _)
PosixLoop(ifaddrs, ret) ==
    IF ifaddrs = <<>> THEN ret
    ELSE LET addr == PosixAddr(Head(ifaddrs))
         IN  IF addr = None THEN PosixLoop(Tail(ifaddrs), ret)
             ELSE PosixLoop(Tail(ifaddrs),
                            Append(ret, PosixInterface(Head(ifaddrs), Unwrap(addr))))

\* posix IfAddrs::new: getifaddrs, -1 is the last OS error
PosixIfAddrsNew(r) == IF r.ret = -1 THEN Err(LastOsError(r.errno)) ELSE Ok(r.ifaddrs)

\* impl Drop for IfAddrs (posix): freeifaddrs(self.inner)
PosixIfAddrsDrop(heap, buf) == Free(heap, buf)

\* getifaddrs_posix::get_if_addrs with the list's life: the list getifaddrs
\* allocated is released when `ifaddrs` goes out of scope, after the loop.
PosixGetIfAddrs(r) ==
    LET ifaddrs == PosixIfAddrsNew(r)
    IN  IF ~ifaddrs.ok THEN [ret |-> ifaddrs, heap |-> <<>>]
        ELSE [ret |-> Ok(PosixLoop(ifaddrs.val, <<>>)),
              heap |-> PosixIfAddrsDrop(Alloc(<<>>, 1), 1)]

\* ------------------------------------------ prefix-table backend (windows)
IpDadStatePreferred == 4
InitialBufferSize == 15000

\* Mutant: the adapter's IPv4 index is wrapped without looking at it.
ipv4_index_ZeroKept(adapter) == Some(adapter.IfIndex)

\* IpAdapterAddresses::ipv4_index / ipv6_index
ipv4_index(adapter) == IF adapter.IfIndex = 0 THEN None ELSE Some(adapter.IfIndex)
ipv6_index(adapter) == IF adapter.Ipv6IfIndex = 0 THEN None ELSE Some(adapter.Ipv6IfIndex)

\* IpAdapterAddresses::oper_status: the adapter's OperStatus through IfOperStatus::from
oper_status(adapter) == IfOperStatusFrom(adapter.OperStatus)

\* Mutant: a bit that differs is skipped (a plain `continue`) and the entry is kept.
RECURSIVE BitLoop_SkipsMismatch(_, _, _, _, _, _, _)
BitLoop_SkipsMismatch(x_word, y_word, n, m, width, PrefixLength, netmask_elt) ==
    IF m >= width \/ (n * width) + m >= PrefixLength THEN Some(netmask_elt)
    ELSE LET bit == 2 ^ (width - 1 - m)
         IN  BitLoop_SkipsMismatch(x_word, y_word, n, m + 1, width, PrefixLength,
                                   IF BitAnd(x_word, bit) = BitAnd(y_word, bit)
                                   THEN BitOr(netmask_elt, bit) ELSE netmask_elt)

\* for m in 0..width: one word of the candidate against one word of the prefix.
\* Some(word of the netmask) when the loop ends or breaks at the prefix length,
\* None for `continue 'prefixloop` at the first bit that differs.
RECURSIVE BitLoop(_, _, _, _, _, _, _)
BitLoop(x_word, y_word, n, m, width, PrefixLength, netmask_elt) ==
    IF m >= width \/ (n * width) + m >= PrefixLength THEN Some(netmask_elt)
    ELSE LET bit == 2 ^ (width - 1 - m)
         IN  IF BitAnd(x_word, bit) = BitAnd(y_word, bit)
             THEN BitLoop(x_word, y_word, n, m + 1, width, PrefixLength,
                          BitOr(netmask_elt, bit))
             ELSE None

\* for (n, netmask_elt) in netmask.iter_mut().enumerate().take((PrefixLength + width - 1) / width)
\* (n counts from 0 as in the source; the sequences count from 1)
RECURSIVE WordLoop(_, _, _, _, _, _)
WordLoop(x, y, n, width, PrefixLength, netmask) ==
    IF n >= Len(netmask) \/ n >= (PrefixLength + width - 1) \div width THEN Some(netmask)
    ELSE LET elt == BitLoop(x[n + 1], y[n + 1], n, 0, width, PrefixLength, netmask[n + 1])
         IN  IF elt = None THEN None
             ELSE WordLoop(x, y, n + 1, width, PrefixLength,
                           [netmask EXCEPT ![n + 1] = Unwrap(elt)])

\* 'prefixloopv4: the netmask and broadcast of the first prefix that matches, the
\* initial zero netmask and no broadcast when the table is exhausted.
RECURSIVE PrefixLoopV4(_, _)
PrefixLoopV4(ipv4_addr, prefixes) ==
    IF prefixes = <<>> THEN [item_netmask |-> Ipv4Zero, item_broadcast |-> None]
    ELSE LET prefix == Head(prefixes)
             ipprefix == to_ipaddr(prefix.Address)
         IN  IF IsSome(ipprefix) /\ Unwrap(ipprefix).v = "V4" THEN
                 LET netmask == WordLoop(ipv4_addr, Unwrap(ipprefix).octets, 0, 8,
                                         prefix.PrefixLength, <<0, 0, 0, 0>>)
                 IN  IF netmask = None THEN PrefixLoopV4(ipv4_addr, Tail(prefixes))
                     ELSE [item_netmask |-> Unwrap(netmask),
                           item_broadcast |->
                               Some([n \in 1..4 |->
                                       BitwiseOr(ipv4_addr[n], ByteNot(Unwrap(netmask)[n]), 8)])]
             ELSE PrefixLoopV4(ipv4_addr, Tail(prefixes))

\* 'prefixloopv6: the same search over 16-bit segments; no broadcast.
RECURSIVE PrefixLoopV6(_, _)
PrefixLoopV6(ipv6_addr, prefixes) ==
    IF prefixes = <<>> THEN Ipv6Zero
    ELSE LET prefix == Head(prefixes)
             ipprefix == to_ipaddr(prefix.Address)
         IN  IF IsSome(ipprefix) /\ Unwrap(ipprefix).v = "V6" THEN
                 LET netmask == WordLoop(segments(ipv6_addr), segments(Unwrap(ipprefix).octets),
                                         0, 16, prefix.PrefixLength,
                                         <<0, 0, 0, 0, 0, 0, 0, 0>>)
                 IN  IF netmask = None THEN PrefixLoopV6(ipv6_addr, Tail(prefixes))
                     ELSE Ipv6AddrNew(Unwrap(netmask))
             ELSE PrefixLoopV6(ipv6_addr, Tail(prefixes))

\* One iteration of the inner loop up to `addr`: None is `continue`.
WindowsAddr(ifaddr, addr) ==
    LET a == to_ipaddr(addr.Address)
    IN  IF addr.DadState # IpDadStatePreferred THEN None
        ELSE IF a = None THEN None
        ELSE IF Unwrap(a).v = "V4" THEN
            LET found == PrefixLoopV4(Unwrap(a).octets, ifaddr.prefixes)
            IN  Some([v |-> "V4", ip |-> Unwrap(a).octets,
                      netmask |-> found.item_netmask,
                      prefixlen |-> addr.OnLinkPrefixLength,
                      broadcast |-> found.item_broadcast])
        ELSE
            Some([v |-> "V6", ip |-> Unwrap(a).octets,
                  netmask |-> PrefixLoopV6(Unwrap(a).octets, ifaddr.prefixes),
                  prefixlen |-> addr.OnLinkPrefixLength,
                  broadcast |-> None])

\* The rest of the iteration: index, oper_status and the pushed Interface.
WindowsInterface(ifaddr, addr) ==
    [name |-> Lossy(ifaddr.FriendlyName),
     addr |-> addr,
     index |-> IF addr.v = "V4" THEN ipv4_index(ifaddr) ELSE ipv6_index(ifaddr),
     oper_status |-> oper_status(ifaddr),
     adapter_name |-> Lossy(ifaddr.AdapterName)]

\* for addr in ifaddr.unicast_addresses() { .. ret.push(..) }
RECURSIVE UnicastLoop(_, _, _)
UnicastLoop(ifaddr, unicast, ret) ==
    IF unicast = <<>> THEN ret
    ELSE LET addr == WindowsAddr(ifaddr, Head(unicast))
         IN  IF addr = None THEN UnicastLoop(ifaddr, Tail(unicast), ret)
             ELSE UnicastLoop(ifaddr, Tail(unicast),
                              Append(ret, WindowsInterface(ifaddr, Unwrap(addr))))

\* for ifaddr in ifaddrs.iter() { .. }
RECURSIVE WindowsLoop(_, _)
WindowsLoop(ifaddrs, ret) ==
    IF ifaddrs = <<>> THEN ret
    ELSE WindowsLoop(Tail(ifaddrs),
                     UnicastLoop(Head(ifaddrs), Head(ifaddrs).unicast_addresses, ret))

\* Mutant: ERROR_BUFFER_OVERFLOW is handled like every other failure.
RECURSIVE WindowsIfAddrsNew_OverflowIsError(_, _, _, _, _, _)
WindowsIfAddrsNew_OverflowIsError(r, answers, buffersize, n, heap, sizes) ==
    IF r.null_at = n
    THEN [ifaddrs |-> Panic("Failed to allocate buffer in get_if_addrs()"),
          heap |-> heap, sizes |-> sizes, live |-> None]
    ELSE LET answer == Head(answers)
             allocated == Alloc(heap, n)
         IN  CASE answer.retcode = "ERROR_SUCCESS" ->
                      [ifaddrs |-> Ok(r.adapters), heap |-> allocated,
                       sizes |-> Append(sizes, buffersize), live |-> Some(n)]
               [] OTHER ->
                      [ifaddrs |-> Err(LastOsError(r.last_error)),
                       heap |-> Free(allocated, n),
                       sizes |-> Append(sizes, buffersize), live |-> None]

\* windows IfAddrs::new: in a loop, HeapAlloc a buffer of `buffersize` bytes (a null
\* pointer is a panic) and call GetAdaptersAddresses with it, which may write the
\* size it needs into `buffersize`; on ERROR_SUCCESS leave the loop, on
\* ERROR_BUFFER_OVERFLOW free the buffer, double `buffersize` and go round again,
\* on every other code free the buffer and return the last OS error.  `answers`
\* are the successive answers of GetAdaptersAddresses, `n` counts the buffers,
\* `sizes` are the sizes the calls were made with.
RECURSIVE WindowsIfAddrsNew(_, _, _, _, _, _)
WindowsIfAddrsNew(r, answers, buffersize, n, heap, sizes) ==
    IF r.null_at = n
    THEN [ifaddrs |-> Panic("Failed to allocate buffer in get_if_addrs()"),
          heap |-> heap, sizes |-> sizes, live |-> None]
    ELSE LET answer == Head(answers)
             allocated == Alloc(heap, n)
             written == IF answer.needed # 0 THEN answer.needed ELSE buffersize
         IN  CASE answer.retcode = "ERROR_SUCCESS" ->
                      [ifaddrs |-> Ok(r.adapters), heap |-> allocated,
                       sizes |-> Append(sizes, buffersize), live |-> Some(n)]
               [] answer.retcode = "ERROR_BUFFER_OVERFLOW" ->
                      WindowsIfAddrsNew(r, Tail(answers), written * 2, n + 1,
                                        Free(allocated, n), Append(sizes, buffersize))
               [] OTHER ->
                      [ifaddrs |-> Err(LastOsError(r.last_error)),
                       heap |-> Free(allocated, n),
                       sizes |-> Append(sizes, buffersize), live |-> None]

\* Mutant: the handle's Drop releases nothing.
WindowsIfAddrsDrop_Leaks(heap, buf) == heap

\* impl Drop for IfAddrs (windows): HeapFree(.., self.inner.0)
WindowsIfAddrsDrop(heap, buf) == Free(heap, buf)

\* getifaddrs_windows::get_if_addrs with the buffer's life: the buffer that holds
\* the adapters is released when `ifaddrs` goes out of scope, after the loops.
WindowsGetIfAddrs(r) ==
    LET new == WindowsIfAddrsNew(r, r.answers, InitialBufferSize, 1, <<>>, <<>>)
    IN  IF ~new.ifaddrs.ok
        THEN [ret |-> new.ifaddrs, heap |-> new.heap, sizes |-> new.sizes]
        ELSE [ret |-> Ok(WindowsLoop(new.ifaddrs.val, <<>>)),
              heap |-> WindowsIfAddrsDrop(new.heap, Unwrap(new.live)),
              sizes |-> new.sizes]

\* ------------------------------------------------------------ OS inputs
\* 192.168.1.42, its /24 netmask, a netmask with holes, its broadcast address
Ip4Host == <<192, 168, 1, 42>>
Ip4Mask24 == <<255, 255, 255, 0>>
Ip4MaskHoles == <<255, 0, 255, 0>>
Ip4Bcast == <<192, 168, 1, 255>>
\* fe80::1, its /64 netmask, the all-nodes address ff02::1
Ip6Host == <<254, 128, 0, 0, 0, 0, 0, 0, 0, 0, 0, 0, 0, 0, 0, 1>>
Ip6Mask64 == <<255, 255, 255, 255, 255, 255, 255, 255, 0, 0, 0, 0, 0, 0, 0, 0>>
Ip6AllNodes == <<255, 2, 0, 0, 0, 0, 0, 0, 0, 0, 0, 0, 0, 0, 0, 1>>
Ip6LinkLocalNet == <<254, 128, 0, 0, 0, 0, 0, 0, 0, 0, 0, 0, 0, 0, 0, 0>>

NameEth == <<"e", "t", "h", "0">>
NameIllFormed == <<"e", "t", "ill-formed">>

\* The entries getifaddrs may link into its list (struct ifaddrs), each with what
\* if_nametoindex answers for its name.
PosixEntries ==
    [ifa_name : {NameEth},
     ifa_flags : {0, IFF_BROADCAST, POSIX_IFF_RUNNING, IFF_BROADCAST + POSIX_IFF_RUNNING},
     ifa_addr : {SockaddrNull, SockaddrLl, SockaddrIn(Ip4Host), SockaddrIn6(Ip6Host)},
     ifa_netmask : {SockaddrNull, SockaddrIn(Ip4Mask24), SockaddrIn(Ip4MaskHoles),
                    SockaddrIn6(Ip6Mask64)},
     ifa_ifu : {SockaddrNull, SockaddrIn(Ip4Bcast), SockaddrIn6(Ip6AllNodes)},
     if_index : {0, 2}]

PosixEth4 ==
    [ifa_name |-> NameEth, ifa_flags |-> IFF_BROADCAST + POSIX_IFF_RUNNING,
     ifa_addr |-> SockaddrIn(Ip4Host), ifa_netmask |-> SockaddrIn(Ip4Mask24),
     ifa_ifu |-> SockaddrIn(Ip4Bcast), if_index |-> 2]
PosixEth6 ==
    [ifa_name |-> NameIllFormed, ifa_flags |-> POSIX_IFF_RUNNING,
     ifa_addr |-> SockaddrIn6(Ip6Host), ifa_netmask |-> SockaddrIn6(Ip6Mask64),
     ifa_ifu |-> SockaddrNull, if_index |-> 2]
PosixEthLl ==
    [ifa_name |-> NameEth, ifa_flags |-> POSIX_IFF_RUNNING,
     ifa_addr |-> SockaddrLl, ifa_netmask |-> SockaddrNull,
     ifa_ifu |-> SockaddrLl, if_index |-> 2]

\* What getifaddrs may answer: a failure, or a list: empty, of any one entry, or
\* of a packet-level entry followed by the addresses of the same interface.
PosixInputs ==
    {[ret |-> -1, errno |-> e, ifaddrs |-> <<>>] : e \in GetifaddrsErrnos}
    \cup {[ret |-> 0, errno |-> "none", ifaddrs |-> l] :
            l \in {<<>>, <<PosixEthLl, PosixEth4>>, <<PosixEthLl, PosixEth4, PosixEth6>>}
                  \cup {<<e>> : e \in PosixEntries}}

\* The entries of an adapter's prefix table (IP_ADAPTER_PREFIX_XP): the network of
\* the host, the host itself, another network, a wider network, a neighbouring
\* network that differs from the host's at bit 22, the IPv6 network.
PrefixEntries ==
    {[Address |-> SockaddrIn(<<192, 168, 1, 0>>), PrefixLength |-> 24],
     [Address |-> SockaddrIn(Ip4Host), PrefixLength |-> 32],
     [Address |-> SockaddrIn(<<10, 0, 0, 0>>), PrefixLength |-> 8],
     [Address |-> SockaddrIn(<<192, 168, 0, 0>>), PrefixLength |-> 16],
     [Address |-> SockaddrIn(<<192, 168, 2, 0>>), PrefixLength |-> 24],
     [Address |-> SockaddrIn6(Ip6LinkLocalNet), PrefixLength |-> 64]}

\* Sequences over S of length at most n
SeqUpTo(S, n) == UNION {[1..k -> S] : k \in 0..n}

PrefixTables == SeqUpTo(PrefixEntries, MaxPrefixes)

\* The unicast addresses of an adapter (IP_ADAPTER_UNICAST_ADDRESS_LH)
UnicastEntries ==
    [Address : {SockaddrNull, SockaddrIn(Ip4Host), SockaddrIn6(Ip6Host)},
     DadState : {IpDadStatePreferred, 3},
     OnLinkPrefixLength : {16, 24, 64}]

\* The scalar fields of an adapter (IP_ADAPTER_ADDRESSES_LH)
AdapterHeaders ==
    {[FriendlyName |-> NameEth, AdapterName |-> NameEth,
      IfIndex |-> 3, Ipv6IfIndex |-> 3, OperStatus |-> 1],
     [FriendlyName |-> NameIllFormed, AdapterName |-> NameEth,
      IfIndex |-> 3, Ipv6IfIndex |-> 0, OperStatus |-> 2],
     [FriendlyName |-> NameEth, AdapterName |-> NameEth,
      IfIndex |-> 0, Ipv6IfIndex |-> 3, OperStatus |-> 9],
     [FriendlyName |-> NameEth, AdapterName |-> NameEth,
      IfIndex |-> 0, Ipv6IfIndex |-> 0, OperStatus |-> 0]}

Adapter(h, unicast, prefixes) ==
    [FriendlyName |-> h.FriendlyName, AdapterName |-> h.AdapterName,
     IfIndex |-> h.IfIndex, Ipv6IfIndex |-> h.Ipv6IfIndex, OperStatus |-> h.OperStatus,
     unicast_addresses |-> unicast, prefixes |-> prefixes]

\* The adapter lists GetAdaptersAddresses may fill in: none, one adapter with one
\* unicast address and any prefix table, or an adapter with an IPv4 and an IPv6
\* address beside one whose address is still tentative.
AdapterLists ==
    {<<>>}
    \cup {<<Adapter(h, <<u>>, p)>> : h \in AdapterHeaders, u \in UnicastEntries, p \in PrefixTables}
    \cup {<<Adapter(h, <<[Address |-> SockaddrIn(Ip4Host), DadState |-> IpDadStatePreferred,
                          OnLinkPrefixLength |-> 24],
                        [Address |-> SockaddrIn6(Ip6Host), DadState |-> IpDadStatePreferred,
                          OnLinkPrefixLength |-> 64]>>, p),
            Adapter(h, <<[Address |-> SockaddrIn(Ip4Host), DadState |-> 3,
                          OnLinkPrefixLength |-> 24]>>, <<>>)>> :
              h \in AdapterHeaders, p \in PrefixTables}

\* The size GetAdaptersAddresses asks for with its i-th ERROR_BUFFER_OVERFLOW: more
\* than the buffer it was given
Needed(i) == 25000 * (3 ^ (i - 1))

\* k answers of ERROR_BUFFER_OVERFLOW followed by `last`; with `writes` the call
\* leaves the size it needs in `buffersize`, without it leaves the size alone
Answers(k, last, writes) ==
    [i \in 1..(k + 1) |->
        IF i <= k THEN [retcode |-> "ERROR_BUFFER_OVERFLOW",
                        needed |-> IF writes THEN Needed(i) ELSE 0]
        ELSE [retcode |-> last, needed |-> 0]]

\* What the OS may answer over the retries of one enumeration: the answers of
\* GetAdaptersAddresses, the error GetLastError holds if it fails, the adapters it
\* fills in, and the HeapAlloc call that returns null (0: none does).
WindowsInputs ==
    {[answers |-> Answers(k, "ERROR_NOT_ENOUGH_MEMORY", w), last_error |-> e,
      adapters |-> <<>>, null_at |-> 0] :
        k \in 0..MaxRetries, w \in BOOLEAN, e \in {"ERROR_NOT_ENOUGH_MEMORY", "ERROR_SUCCESS"}}
    \cup {[answers |-> Answers(0, "ERROR_SUCCESS", TRUE), last_error |-> "ERROR_SUCCESS",
           adapters |-> l, null_at |-> 0] : l \in AdapterLists}
    \cup {[answers |-> Answers(k, "ERROR_SUCCESS", w), last_error |-> "ERROR_SUCCESS",
           adapters |-> <<Adapter(h, <<>>, <<>>)>>, null_at |-> 0] :
              k \in 1..MaxRetries, w \in BOOLEAN, h \in AdapterHeaders}
    \cup UNION {{[answers |-> Answers(k, "ERROR_SUCCESS", TRUE),
                   last_error |-> "ERROR_SUCCESS", adapters |-> <<>>, null_at |-> n] :
                     n \in 1..(k + 1)} : k \in 0..MaxRetries}

\* ------------------------------------------------------------ the probe's machine
\* One call of get_if_addrs on a host where no engine is constructed.
ProbeInit ==
    /\ backend \in {"posix", "windows"}
    /\ host = {IfLo}
    /\ NoEngine
    /\ os_input \in IF backend = "posix" THEN PosixInputs ELSE WindowsInputs
    /\ probe_ret = None
    /\ arg = <<>>
    /\ returned = None

engineVars == <<backend, host, pending, engine, inner, new_result, last_ifs, pc, timeout,
                since_start, since_block, budget, rcvtimeo, changes, result, prev_ifs,
                entry_ifs, probed, cause, os_err, seeded, caller_view, new_fail, callback,
                freed_use>>

\* get_if_addrs() on the direct-netmask backend
GetIfAddrsPosix ==
    /\ backend = "posix"
    /\ probe_ret = None
    /\ probe_ret' = Some(PosixGetIfAddrs(os_input))
    /\ UNCHANGED <<engineVars, os_input, arg, returned>>

\* get_if_addrs() on the prefix-table backend
GetIfAddrsWindows ==
    /\ backend = "windows"
    /\ probe_ret = None
    /\ probe_ret' = Some(WindowsGetIfAddrs(os_input))
    /\ UNCHANGED <<engineVars, os_input, arg, returned>>

NextProbe ==
    \/ GetIfAddrsPosix
    \/ GetIfAddrsWindows

SpecProbe == ProbeInit /\ [][NextProbe]_vars


\* ============================================================ pure methods
\* Raw operational-status values range over -MaxRaw..MaxRaw and the ends of i32.
MaxRaw == 60

\* Ifv6Addr::is_link_local
is_link_local(self) ==
    LET bytes == self.ip
    IN  bytes[1] = 254 /\ bytes[2] = 128

\* The i32 values handed to IfOperStatus::from
RawStatuses == (-MaxRaw..MaxRaw) \cup {-2147483647 - 1, 2147483647}

\* An IPv6 address whose first two octets are hi, lo and whose last octet is 1
Ip6With(hi, lo) == <<hi, lo, 0, 0, 0, 0, 0, 0, 0, 0, 0, 0, 0, 0, 0, 1>>

\* 2001:db8::1
Ip6Doc == <<32, 1, 13, 184, 0, 0, 0, 0, 0, 0, 0, 0, 0, 0, 0, 1>>

\* The Ifv6Addr values is_link_local is called on: addresses around the fe80::/10
\* range and outside it, with any netmask, prefix length and broadcast.
Ifv6Addrs ==
    [ip : {Ip6With(hi, lo) : hi \in {0, 253, 254, 255}, lo \in {0, 127, 128, 129, 144, 191, 192, 255}}
            \cup {Ip6Doc},
     netmask : {Ipv6Zero, Ip6Mask64},
     prefixlen : {0, 64},
     broadcast : {None, Some(Ip6AllNodes)}]

Calls ==
    {[fn |-> "IfOperStatus::from", value |-> v] : v \in RawStatuses}
    \cup {[fn |-> "Ifv6Addr::is_link_local", self |-> a] : a \in Ifv6Addrs}

\* One call of a pure method, on either build.
PureInit ==
    /\ backend \in {"posix", "windows"}
    /\ host = {IfLo}
    /\ NoEngine
    /\ os_input = <<>>
    /\ probe_ret = None
    /\ arg \in Calls
    /\ returned = None

\* IfOperStatus::from(value)
CallIfOperStatusFrom ==
    /\ arg.fn = "IfOperStatus::from"
    /\ returned = None
    /\ returned' = Some(IfOperStatusFrom(arg.value))
    /\ UNCHANGED <<engineVars, os_input, probe_ret, arg>>

\* self.is_link_local()
CallIsLinkLocal ==
    /\ arg.fn = "Ifv6Addr::is_link_local"
    /\ returned = None
    /\ returned' = Some(is_link_local(arg.self))
    /\ UNCHANGED <<engineVars, os_input, probe_ret, arg>>

NextPure ==
    \/ CallIfOperStatusFrom
    \/ CallIsLinkLocal

SpecPure == PureInit /\ [][NextPure]_vars

\* ============================================================ properties
Running == pc \in {"loop", "blocking", "probing"}
ReturnedOk == pc = "returned" /\ IsSome(result) /\ Unwrap(result).ok
ReturnedErr == pc = "returned" /\ IsSome(result) /\ ~Unwrap(result).ok

\* How often `x` occurs in the change list `c` under `tag`
Occurrences(c, tag, x) ==
    Cardinality({i \in 1..Len(c) : c[i].tag = tag /\ c[i].iface = x})

\* C1: the change list computed from a probe holds exactly one Added(x) for each x
\* the probe reported that last_ifs did not hold, exactly one Removed(y) for each y
\* of last_ifs the probe did not report, and nothing else; it is empty when the two
\* snapshots are equal; and the list wait returns is that list.
C1_DiffExact ==
    IsSome(probed) =>
        /\ \A x \in Interfaces :
              /\ Occurrences(changes, "Added", x)
                    = IF x \in Unwrap(probed) /\ x \notin prev_ifs THEN 1 ELSE 0
              /\ Occurrences(changes, "Removed", x)
                    = IF x \in prev_ifs /\ x \notin Unwrap(probed) THEN 1 ELSE 0
        /\ \A i \in 1..Len(changes) :
              changes[i].tag \in {"Added", "Removed"} /\ changes[i].iface \in Interfaces
        /\ (prev_ifs = Unwrap(probed) => changes = <<>>)
        /\ (ReturnedOk => Unwrap(result).val = changes)

\* A wait that returned two Added and one Removed.
C1_Witness ==
    /\ ReturnedOk
    /\ prev_ifs = {IfLo}
    /\ Unwrap(probed) = {IfEth, IfEthNew}
    /\ Len(Unwrap(result).val) = 3

\* C2: wait never returns Ok with an empty list, and a wake whose re-probe equals
\* last_ifs does not return: the loop goes on to another blocking iteration.
C2_NeverEmptyOk ==
    /\ ReturnedOk => Len(Unwrap(result).val) >= 1
    /\ (IsSome(probed) /\ Unwrap(probed) = prev_ifs) => ~ReturnedOk
    /\ (pc = "loop" /\ IsSome(probed)) => (Unwrap(probed) = prev_ifs /\ result = None)

\* wait blocks again after a spurious wake.
C2_Witness ==
    /\ pc = "blocking"
    /\ IsSome(probed)
    /\ Unwrap(probed) = prev_ifs

\* C6: when wait returns Ok(changes), last_ifs is the set reported by the probe
\* that yielded the changes; from {IfLo}, a probe reporting {IfLo, IfEth} makes wait
\* return exactly [Added(IfEth)] and leaves last_ifs = {IfLo, IfEth}.
C6_SnapshotIsProbe ==
    ReturnedOk =>
        /\ IsSome(probed)
        /\ last_ifs = Unwrap(probed)
        /\ (prev_ifs = {IfLo} /\ Unwrap(probed) = {IfLo, IfEth}) =>
              /\ Unwrap(result).val = <<[tag |-> "Added", iface |-> IfEth]>>
              /\ last_ifs = {IfLo, IfEth}

C6_Witness ==
    /\ ReturnedOk
    /\ prev_ifs = {IfLo}
    /\ Unwrap(probed) = {IfLo, IfEth}
    /\ last_ifs = {IfLo, IfEth}

\* C7: in a returned change list no Removed entry stands before an Added entry.
C7_AddedBeforeRemoved ==
    ReturnedOk =>
        \A i, j \in 1..Len(Unwrap(result).val) :
            (Unwrap(result).val[i].tag = "Removed" /\ Unwrap(result).val[j].tag = "Added")
                => j < i

\* A returned list that holds both kinds.
C7_Witness ==
    /\ ReturnedOk
    /\ \E i, j \in 1..Len(Unwrap(result).val) :
          Unwrap(result).val[i].tag = "Added" /\ Unwrap(result).val[j].tag = "Removed"

\* C3: wait(Some(0)) with no signal pending returns the Timeout error (kind
\* WouldBlock) unless the primitive itself fails, and it does not stay blocked: on
\* either backend the blocking call ends.
C3_ZeroTimeoutTimesOut ==
    /\ [][(pc = "blocking" /\ timeout = Some(0) /\ pending = 0 /\ pc' # "blocking")
            => /\ pc' = "returned"
               /\ IsSome(result') /\ ~Unwrap(result').ok
               /\ \/ cause' = "primitive"
                  \/ cause' = "timeout" /\ Unwrap(result').err.kind = "WouldBlock"]_vars
    /\ (pc = "blocking" /\ timeout = Some(0) /\ pending = 0)
          ~> (pc # "blocking" \/ pending > 0)

\* wait(Some(0)) on the socket backend timed out without any wake.
C3_Witness ==
    /\ ReturnedErr
    /\ backend = "posix"
    /\ timeout = Some(0)
    /\ cause = "timeout"
    /\ probed = None
    /\ Unwrap(result).err.kind = "WouldBlock"

C5_ReturnsOnceDeadlinePassed ==
    (Running /\ IsSome(timeout) /\ since_start >= Unwrap(timeout)) ~> (pc = "returned")

\* C8: once an OS call of wait has failed (the primitive, other than by timing
\* out, or the re-probe), wait has returned that error: it is not blocking,
\* probing or looping.
C8_FailurePropagates ==
    IsSome(os_err) =>
        /\ pc = "returned"
        /\ result = Some(Err(Unwrap(os_err)))

\* A re-probe failed after a wake and wait returned its error.
C8_Witness ==
    /\ ReturnedErr
    /\ cause = "probe"
    /\ result = Some(Err(Unwrap(os_err)))

\* C9: new succeeds only if the primitive was acquired and the seeding probe
\* succeeded; a failure of either step is what new returns, and then the primitive
\* is released and nothing was stored; on success last_ifs is what the host reported
\* to the seeding probe.
C9_NewNeedsBothSteps ==
    /\ engine = "live" =>
          /\ new_fail = None
          /\ Subscribed
          /\ new_result = Some(Ok("IfChangeNotifier"))
          /\ IsSome(seeded)
    /\ (engine = "live" /\ pc = "idle") => last_ifs = Unwrap(seeded)
    /\ IsSome(new_fail) => engine = "failed"
    /\ engine = "failed" =>
          /\ IsSome(new_fail)
          /\ new_result = Some(Err(Unwrap(new_fail).err))
          /\ ~Subscribed
          /\ inner.sock # "open" /\ inner.tx # "boxed" /\ inner.handle = 0
          /\ last_ifs = {} /\ seeded = None /\ pc = "idle"
    /\ engine = "acquired" => (new_fail = None /\ new_result = None)

\* The seeding probe failed after the primitive had been acquired.
C9_Witness ==
    /\ engine = "failed"
    /\ IsSome(new_fail)
    /\ Unwrap(new_fail).step = "probe"

\* The addresses (Ifv4Addr / Ifv6Addr) of the interfaces get_if_addrs returned
Produced ==
    IF IsSome(probe_ret) /\ Unwrap(probe_ret).ret.ok
    THEN {Unwrap(probe_ret).ret.val[i].addr : i \in 1..Len(Unwrap(probe_ret).ret.val)}
    ELSE {}

\* C10: on either backend and for every OS input, every Ifv4Addr and Ifv6Addr that
\* get_if_addrs produced has prefixlen equal to the number of set bits of netmask.
C10_PrefixlenIsPopcount ==
    \A a \in Produced : a.prefixlen = count_ones(a.netmask)


\* The interfaces get_if_addrs returned
ProducedInterfaces ==
    IF IsSome(probe_ret) /\ Unwrap(probe_ret).ret.ok
    THEN {Unwrap(probe_ret).ret.val[i] : i \in 1..Len(Unwrap(probe_ret).ret.val)}
    ELSE {}

\* The one entry / the one unicast address of the one adapter the OS reported, when
\* the enumeration succeeded with exactly that and the address is one the probe keeps.
SoleEntry ==
    IF backend = "posix" /\ os_input.ret # -1 /\ Len(os_input.ifaddrs) = 1
       /\ IsSome(to_ipaddr(os_input.ifaddrs[1].ifa_addr))
    THEN Some(os_input.ifaddrs[1]) ELSE None

SoleAdapter ==
    IF backend = "windows" /\ os_input.null_at = 0
       /\ os_input.answers[Len(os_input.answers)].retcode = "ERROR_SUCCESS"
       /\ Len(os_input.adapters) = 1
       /\ Len(os_input.adapters[1].unicast_addresses) = 1
       /\ os_input.adapters[1].unicast_addresses[1].DadState = IpDadStatePreferred
       /\ IsSome(to_ipaddr(os_input.adapters[1].unicast_addresses[1].Address))
    THEN Some(os_input.adapters[1]) ELSE None

\* The raw index the OS reported for the sole entry's address
SoleRawIndex ==
    IF IsSome(SoleEntry) THEN Some(Unwrap(SoleEntry).if_index)
    ELSE IF IsSome(SoleAdapter)
    THEN Some(IF Unwrap(SoleAdapter).unicast_addresses[1].Address.sa_family = "AF_INET"
              THEN Unwrap(SoleAdapter).IfIndex ELSE Unwrap(SoleAdapter).Ipv6IfIndex)
    ELSE None

\* C11: every Interface get_if_addrs produced has an index that is None or Some(i)
\* with i > 0; an index of zero reported by the OS (if_nametoindex answering 0, a
\* zero IfIndex / Ipv6IfIndex) comes out as None in a successful result, and a
\* non-zero one comes out as Some of it.
C11_IndexPositive ==
    /\ \A x \in ProducedInterfaces : IsSome(x.index) => Unwrap(x.index) > 0
    /\ (IsSome(probe_ret) /\ IsSome(SoleRawIndex)) =>
          /\ Unwrap(probe_ret).ret.ok
          /\ Len(Unwrap(probe_ret).ret.val) = 1
          /\ Unwrap(probe_ret).ret.val[1].index =
                 (IF Unwrap(SoleRawIndex) = 0 THEN None ELSE Some(Unwrap(SoleRawIndex)))

\* C11 witness: a probe on the prefix-table backend returned one IPv4 interface
\* whose adapter reported IfIndex 0, and its index is None.
C11_Witness ==
    /\ IsSome(probe_ret)
    /\ IsSome(SoleAdapter)
    /\ Unwrap(SoleAdapter).unicast_addresses[1].Address.sa_family = "AF_INET"
    /\ Unwrap(SoleAdapter).IfIndex = 0
    /\ Unwrap(SoleAdapter).Ipv6IfIndex # 0
    /\ Unwrap(probe_ret).ret.ok
    /\ Unwrap(probe_ret).ret.val[1].index = None


\* C12: in every Interface get_if_addrs produced, a broadcast that is Some belongs
\* to an IPv4 address; an IPv6 address carries no broadcast whatever flags and
\* broadcast/destination value the OS reported for its entry.
C12_BroadcastOnlyIpv4 ==
    \A x \in ProducedInterfaces : IsSome(x.addr.broadcast) => x.addr.v = "V4"


\* The variants of IfOperStatus in the order of their discriminants 1..7
IfOperStatusVariants ==
    <<"Up", "Down", "Testing", "Unknown", "Dormant", "NotPresent", "LowerLayerDown">>

\* C13: IfOperStatus::from maps 1..7 to Up, Down, Testing, Unknown, Dormant,
\* NotPresent, LowerLayerDown in that order and every other i32 (zero, negative,
\* above 7) to Unknown, and it returns a variant for every i32.
C13_OperStatusMapping ==
    (arg # <<>> /\ arg.fn = "IfOperStatus::from" /\ IsSome(returned)) =>
        /\ arg.value \in 1..7 => Unwrap(returned) = IfOperStatusVariants[arg.value]
        /\ arg.value \notin 1..7 => Unwrap(returned) = "Unknown"
        /\ \E n \in 1..7 : Unwrap(returned) = IfOperStatusVariants[n]

\* C13 witness: the smallest i32 was converted, to Unknown.
C13_Witness ==
    /\ arg # <<>>
    /\ arg.fn = "IfOperStatus::from"
    /\ arg.value = -2147483647 - 1
    /\ returned = Some("Unknown")

\* The top 10 bits of an IPv6 address are 1111111010
InFe80Slash10(ip) == ip[1] = 254 /\ ip[2] \div 64 = 2

\* C14: Ifv6Addr::is_link_local returns true exactly when the top 10 bits of ip are
\* 1111111010 (fe80::/10), whatever the other fields of the value are.
C14_LinkLocalIsFe80Slash10 ==
    (arg # <<>> /\ arg.fn = "Ifv6Addr::is_link_local" /\ IsSome(returned)) =>
        (Unwrap(returned) <=> InFe80Slash10(arg.self.ip))


\* C15: on the callback backend the sender is freed only after the callback has
\* been unregistered, it is freed at most once and exactly once when the primitive
\* has been torn down, no callback runs once it is freed, and no callback has
\* used it after it was freed.
C15_TeardownReleasesOnce ==
    /\ inner.tx = "freed" => (inner.handle = 0 /\ Quiescent)
    /\ inner.frees <= 1
    /\ engine \in {"failed", "dropped"} => inner.frees = 1
    /\ ~freed_use

\* C15 witness: the primitive was torn down, its sender freed once, after its Drop
\* had been entered with the registration live.
C15_Witness ==
    /\ engine = "dropped"
    /\ inner.tx = "freed"
    /\ inner.frees = 1
    /\ inner.handle = 0

\* C16: on the callback backend at most one signal is pending in the mailbox at
\* any time, however many callbacks ran before the consumer received.
C16_OneSlotMailbox ==
    backend = "windows" => pending <= 1

\* The receive of wait is blocked: entered and unable to return
ReceiveBlocked ==
    pc = "blocking" /\ ChannelReturns(pending, inner.tx, budget, since_block) = {}

\* C17: on the callback backend a callback that has reached its send is never
\* blocked by the mailbox, whatever the consumer is doing and whatever is pending;
\* the receive of wait is the operation that blocks, and only on an empty mailbox.
C17_SendNeverBlocks ==
    /\ \A t \in NotifierThreads :
          (callback[t] = "running" /\ inner.tx = "boxed") =>
              ChannelSend(pending, ChannelCapacity, TRUE) # "blocked"
    /\ ReceiveBlocked => pending = 0

\* C17 witness: a callback is at its send while a signal is already pending and
\* wait is in its receive.
C17_Witness ==
    /\ \E t \in NotifierThreads : callback[t] = "running"
    /\ inner.tx = "boxed"
    /\ pending >= 1
    /\ pc = "blocking"


\* What the blocking call of the primitive may return with now, a failure aside
BlockingReturns ==
    IF backend = "posix"
    THEN RecvReturns(pending, rcvtimeo, since_block)
    ELSE ChannelReturns(pending, inner.tx, budget, since_block)

\* C18: a wait without timeout never returns the timeout error: it returns Ok
\* with the non-empty changes of a probe, or the error of a primitive or probe
\* failure; and while it is blocked with no signal pending the blocking call has
\* no way to return, however long it has been blocked.
C18_NoTimeoutBlocks ==
    timeout = None =>
        /\ ReturnedOk => (changes # <<>> /\ Unwrap(result).val = changes /\ IsSome(probed))
        /\ ReturnedErr =>
              /\ cause \in {"primitive", "probe"}
              /\ IsSome(os_err)
              /\ Unwrap(result).err.kind # "WouldBlock"
        /\ (pc = "blocking" /\ pending = 0) => (budget = None /\ BlockingReturns = {})

\* C18 witness: a wait without timeout has been blocked for as long as the clock
\* of the model counts, with nothing pending.
C18_Witness ==
    /\ timeout = None
    /\ pc = "blocking"
    /\ pending = 0
    /\ since_block = MaxTicks * TickNs
    /\ since_start = MaxTicks * TickNs


\* The answers GetAdaptersAddresses gave before HeapAlloc returned null, all of
\* them when it never did
AnswersHeard ==
    IF os_input.null_at = 0 THEN os_input.answers
    ELSE SubSeq(os_input.answers, 1, os_input.null_at - 1)

\* C19: in the pre-sized-buffer probe a buffer-too-small answer is never returned
\* as an error: every such answer is followed by another call with a larger buffer,
\* twice the size the failed call left behind; the probe ends with Ok on the
\* success answer and with the I/O error of the last OS error on any other answer.
C19_BufferOverflowRetried ==
    (backend = "windows" /\ IsSome(probe_ret)) =>
        LET out == Unwrap(probe_ret)
            heard == AnswersHeard
            last == os_input.answers[Len(os_input.answers)]
        IN  /\ os_input.null_at = 0 =>
                  /\ Len(out.sizes) = Len(heard)
                  /\ last.retcode = "ERROR_SUCCESS" => out.ret.ok
                  /\ last.retcode # "ERROR_SUCCESS" =>
                        /\ ~out.ret.ok
                        /\ ~IsPanic(out.ret)
                        /\ out.ret.err = LastOsError(os_input.last_error)
            /\ os_input.null_at # 0 => (IsPanic(out.ret) /\ Len(out.sizes) = Len(heard))
            /\ Len(out.sizes) >= 1 => out.sizes[1] = InitialBufferSize
            /\ \A i \in 1..(Len(out.sizes) - 1) :
                  /\ heard[i].retcode = "ERROR_BUFFER_OVERFLOW"
                  /\ out.sizes[i + 1] > out.sizes[i]
                  /\ out.sizes[i + 1] =
                         2 * (IF heard[i].needed # 0 THEN heard[i].needed ELSE out.sizes[i])

\* C19 witness: the enumeration answered buffer-too-small as often as the model
\* allows and then succeeded, and the probe returned Ok.
C19_Witness ==
    /\ backend = "windows"
    /\ IsSome(probe_ret)
    /\ os_input.null_at = 0
    /\ Len(os_input.answers) = MaxRetries + 1
    /\ os_input.answers[1].retcode = "ERROR_BUFFER_OVERFLOW"
    /\ Unwrap(probe_ret).ret.ok
    /\ Len(Unwrap(probe_ret).sizes) = MaxRetries + 1


\* How many events of the log `heap` up to its j-th are `op` on buffer `buf`
HeapEvents(heap, j, op, buf) ==
    Cardinality({i \in 1..j : heap[i].op = op /\ heap[i].buf = buf})

\* The buffers live after the first j events of the log
LiveAfter(heap, j) ==
    {heap[i].buf : i \in {i \in 1..j : heap[i].op = "alloc"}}
        \ {heap[i].buf : i \in {i \in 1..j : heap[i].op = "free"}}

\* C20: when a probe call has finished, on either backend and on every exit path,
\* every buffer the OS handed out was handed out once and released exactly once,
\* after it was handed out; at no point of the call was more than one buffer live
\* (a rejected buffer is released before the next is allocated), and none is live
\* at the end.
C20_BuffersReleasedOnce ==
    IsSome(probe_ret) =>
        LET heap == Unwrap(probe_ret).heap
        IN  /\ \A j \in 0..Len(heap) : Cardinality(LiveAfter(heap, j)) <= 1
            /\ LiveAfter(heap, Len(heap)) = {}
            /\ \A j \in 1..Len(heap) :
                  /\ HeapEvents(heap, Len(heap), heap[j].op, heap[j].buf) = 1
                  /\ heap[j].op = "free" => HeapEvents(heap, j, "alloc", heap[j].buf) = 1
                  /\ heap[j].op = "alloc" =>
                        HeapEvents(heap, Len(heap), "free", heap[j].buf) = 1

\* C20 witness: a probe that was told buffer-too-small and then succeeded has
\* finished: two buffers, each handed out and released, one after the other.
C20_Witness ==
    /\ backend = "windows"
    /\ IsSome(probe_ret)
    /\ Unwrap(probe_ret).ret.ok
    /\ Unwrap(probe_ret).heap =
           <<[op |-> "alloc", buf |-> 1], [op |-> "free", buf |-> 1],
             [op |-> "alloc", buf |-> 2], [op |-> "free", buf |-> 2]>>


\* Bit k of an address, bit 0 being the most significant bit of the first octet
AddressBit(octets, k) == (octets[(k \div 8) + 1] \div (2 ^ (7 - (k % 8)))) % 2

\* The address bytes of an AF_INET / AF_INET6 socket address
RawOctets(sockaddr) ==
    IF sockaddr.sa_family = "AF_INET" THEN sockaddr.sin_addr ELSE sockaddr.sin6_addr

\* The table entry has the candidate's family and agrees with the candidate on
\* every bit below the entry's prefix length.
PrefixMatches(candidate, prefix) ==
    /\ prefix.Address.sa_family = candidate.sa_family
    /\ \A k \in 0..(prefix.PrefixLength - 1) :
          AddressBit(RawOctets(candidate), k) = AddressBit(RawOctets(prefix.Address), k)

\* The first entry of the table, in table order, that matches the candidate
FirstMatch(candidate, prefixes) ==
    LET hits == {i \in 1..Len(prefixes) : PrefixMatches(candidate, prefixes[i])}
    IN  IF hits = {} THEN None
        ELSE Some(prefixes[CHOOSE i \in hits : \A j \in hits : i <= j])

\* The mask of `nbytes` octets whose leading `len` bits are set and no other
LeadingBits(len, nbytes) ==
    [n \in 1..nbytes |->
        IF len >= 8 * n THEN 255
        ELSE IF len <= 8 * (n - 1) THEN 0
        ELSE 256 - (2 ^ (8 * n - len))]

\* The sole unicast address of the sole adapter and the address produced for it,
\* once the probe on the prefix-table backend has returned.
SoleCandidate == Unwrap(SoleAdapter).unicast_addresses[1]
SoleProduced == Unwrap(probe_ret).ret.val[1].addr
SoleReturned ==
    /\ IsSome(probe_ret)
    /\ IsSome(SoleAdapter)
    /\ Unwrap(probe_ret).ret.ok
    /\ Len(Unwrap(probe_ret).ret.val) = 1

\* The netmask is that of the first matching entry of the table: exactly the leading
\* PrefixLength bits, nothing of the entries abandoned before it; for IPv4 the
\* broadcast is then ip | !netmask.
NetmaskOfFirstMatch ==
    (IsSome(probe_ret) /\ IsSome(SoleAdapter)) =>
        /\ SoleReturned
        /\ LET found == FirstMatch(SoleCandidate.Address, Unwrap(SoleAdapter).prefixes)
           IN  IsSome(found) =>
                 /\ SoleProduced.netmask =
                        LeadingBits(Unwrap(found).PrefixLength, Len(SoleProduced.ip))
                 /\ SoleProduced.v = "V4" =>
                        SoleProduced.broadcast =
                            Some([n \in 1..4 |->
                                    BitwiseOr(SoleProduced.ip[n],
                                              255 - SoleProduced.netmask[n], 8)])

\* The candidate 192.168.1.42 met the table entry 192.168.1.0/24 first.
Slash24Scenario ==
    /\ SoleReturned
    /\ SoleCandidate.Address = SockaddrIn(Ip4Host)
    /\ Unwrap(SoleAdapter).prefixes # <<>>
    /\ Unwrap(SoleAdapter).prefixes[1] =
           [Address |-> SockaddrIn(<<192, 168, 1, 0>>), PrefixLength |-> 24]

\* C21: on the prefix-table backend the netmask of an address is rebuilt from the
\* first entry of the adapter's prefix table, in table order, that has the address's
\* family and agrees with it on every bit below the entry's prefix length; entries
\* abandoned at a mismatched bit leave no bit in the result, which has exactly the
\* leading prefix-length bits set; for IPv4 the broadcast is ip | !netmask.  Table
\* entry 192.168.1.0/24 with candidate 192.168.1.42 gives netmask 255.255.255.0,
\* prefix length 24 and broadcast 192.168.1.255.
C21_NetmaskFromFirstMatchingPrefix ==
    /\ NetmaskOfFirstMatch
    /\ Slash24Scenario =>
          /\ SoleProduced.netmask = Ip4Mask24
          /\ SoleProduced.prefixlen = 24
          /\ SoleProduced.broadcast = Some(Ip4Bcast)


\* The zero address of the produced address's family
ZeroOf(addr) == IF addr.v = "V4" THEN Ipv4Zero ELSE Ipv6Zero

\* C22: on the prefix-table backend, when no entry of the adapter's prefix table
\* matches the candidate address (the table is empty, holds only entries of the
\* other family, or every entry of the family differs from it at some bit below
\* its prefix length), the produced netmask is all-zero, prefixlen is the address's
\* own OnLinkPrefixLength and broadcast is None.
C22_NoMatchZeroNetmask ==
    (IsSome(probe_ret) /\ IsSome(SoleAdapter)
        /\ FirstMatch(SoleCandidate.Address, Unwrap(SoleAdapter).prefixes) = None) =>
        /\ SoleReturned
        /\ SoleProduced.netmask = ZeroOf(SoleProduced)
        /\ SoleProduced.prefixlen = SoleCandidate.OnLinkPrefixLength
        /\ SoleProduced.broadcast = None

\* C22 witness: 192.168.1.42 against a table of 192.168.2.0/24, which agrees with
\* it on 22 bits, and 10.0.0.0/8, which differs at the first: nothing matched, and
\* the address came out with a zero netmask, its on-link length and no broadcast.
C22_Witness ==
    /\ SoleReturned
    /\ SoleCandidate.Address = SockaddrIn(Ip4Host)
    /\ SoleCandidate.OnLinkPrefixLength = 24
    /\ Unwrap(SoleAdapter).prefixes =
           <<[Address |-> SockaddrIn(<<192, 168, 2, 0>>), PrefixLength |-> 24],
             [Address |-> SockaddrIn(<<10, 0, 0, 0>>), PrefixLength |-> 8]>>
    /\ SoleProduced.netmask = Ipv4Zero
    /\ SoleProduced.prefixlen = 24
    /\ SoleProduced.broadcast = None


\* C23: on the socket backend, whenever recv is entered with a timeout given whose
\* whole seconds and microseconds are both zero (a zero duration, or one below a
\* microsecond), the receive timeout set on the socket is one microsecond, never
\* zero; the zero receive timeout, on which recv waits forever, is on the socket
\* only when no timeout was given.
C23_ZeroTimeoutBecomesOneMicro ==
    (backend = "posix" /\ pc = "blocking") =>
        /\ (IsSome(budget) /\ AsSecs(Unwrap(budget)) = 0 /\ SubsecMicros(Unwrap(budget)) = 0)
              => rcvtimeo = [tv_sec |-> 0, tv_usec |-> 1]
        /\ IsSome(budget) => TimevalNs(rcvtimeo) > 0
        /\ rcvtimeo = [tv_sec |-> 0, tv_usec |-> 0] => (budget = None /\ timeout = None)

\* C23 witness: recv was entered with a budget above zero and below a microsecond,
\* and the socket's receive timeout is one microsecond.
C23_Witness ==
    /\ backend = "posix"
    /\ pc = "blocking"
    /\ IsSome(budget)
    /\ Unwrap(budget) > 0
    /\ Unwrap(budget) < NanosPerMicro
    /\ rcvtimeo = [tv_sec |-> 0, tv_usec |-> 1]


\* The interfaces a change list names under `tag`
Named(c, tag) == {c[i].iface : i \in {i \in 1..Len(c) : c[i].tag = tag}}

\* This step is a re-probe of wait that succeeded.
ProbeSucceeded ==
    /\ pc = "probing"
    /\ pc' \in {"loop", "returned"}
    /\ ~(IsSome(result') /\ ~Unwrap(result').ok)

\* C24: when wait returns an error (the timeout, a failure of the primitive or of
\* the re-probe), last_ifs is the set it was when that call of wait was entered,
\* also when probes of spurious wakes replaced it during the call; so a change of
\* the host that no wait has reported is still in the difference a later successful
\* probe takes against last_ifs, and the wait of that probe returns it.
C24_ErrorKeepsSnapshot ==
    /\ [](ReturnedErr => last_ifs = entry_ifs)
    /\ [][ProbeSucceeded =>
            /\ Named(changes', "Added") = host \ last_ifs
            /\ Named(changes', "Removed") = last_ifs \ host
            /\ host # last_ifs =>
                  (pc' = "returned" /\ result' = Some(Ok(changes')))]_vars

\* C24 witness: a wait whose first wake was spurious (its probe found the snapshot
\* unchanged and replaced it) returned the error of a later failed probe while the
\* host had changed: the change is unreported and last_ifs is as at entry.
C24_Witness ==
    /\ ReturnedErr
    /\ cause = "probe"
    /\ IsSome(probed)
    /\ Unwrap(probed) = entry_ifs
    /\ last_ifs = entry_ifs
    /\ host # last_ifs


\* C25: over every sequence of wait calls on one engine, what a caller holds who
\* starts from the seed snapshot and applies each returned change list (inserting
\* every Added, deleting every Removed) is the engine's last_ifs after every Ok
\* return; and in one returned list no Interface occurs twice, nor as Added and as
\* Removed.
C25_CallerViewIsSnapshot ==
    ReturnedOk =>
        /\ caller_view = last_ifs
        /\ \A x \in Interfaces :
              Occurrences(Unwrap(result).val, "Added", x)
                  + Occurrences(Unwrap(result).val, "Removed", x) <= 1

\* C25 witness: a wait has returned a list with an Added and a Removed to a caller
\* whose view had already moved off the seed snapshot by an earlier list.
C25_Witness ==
    /\ ReturnedOk
    /\ Named(Unwrap(result).val, "Added") # {}
    /\ Named(Unwrap(result).val, "Removed") # {}
    /\ prev_ifs # Unwrap(seeded)
    /\ caller_view = last_ifs


====
